---- MODULE Spec2Model ----
(***************************************************************************)
(* IETE Bot: the conversation session manager (src/geminiService.ts) and   *)
(* the chat component that drives it (src/components/ChatInterface.tsx,    *)
(* the component defined at lines 380-822).                                *)
(*                                                                         *)
(* A JavaScript string is a sequence of pieces: single characters or       *)
(* fixed literals of the source.  "" is << >>, + is \o, and a string is    *)
(* falsy exactly when it is << >>.  An optional property is a record       *)
(* field that may be missing; an omitted argument is `undefined`.          *)
(***************************************************************************)
EXTENDS Integers, Sequences, FiniteSets, TLC

VARIABLES
    \* GeminiService (src/geminiService.ts)
    history,            \* private history: any[]
    systemInstruction,  \* private systemInstruction: string
    API_KEY,            \* process.env.API_KEY, fixed by the build
    \* observation of the service's boundary
    appended,           \* turns handed to updateHistory since the last initChat
    netCalls,           \* number of calls of ai.models.generateContentStream
    lastRequest,        \* the argument of the latest such call
    outcome,            \* how the last sendMessageStream call ended, and its arguments
    lastInit,           \* the argument of the latest initChat call
    imageResult,        \* what the last generateImage call resolved to, and its response
    \* App and ChatInterface (src/App.tsx, src/components/ChatInterface.tsx)
    user,               \* App: useState<UserProfile | null>
    messages,           \* useState<Message[]>
    input,              \* useState('')
    isLoading,          \* useState(false)
    isTyping,           \* useState(false)
    selectedMedia,      \* useState<{data, mimeType} | null>
    activeAction,       \* useState<ToolkitAction | null>
    welcome,            \* the welcome interval: its words, i and current
    inflight,           \* the processMessage calls suspended at an await
    now,                \* Date.now()
    started,            \* number of processMessage calls that passed their guard
    chunksSeen,         \* number of stream chunks delivered so far
    imageInflight,      \* the processVisualizer calls suspended at their await
    orphans,            \* suspended calls of components that have been unmounted
    mounts,             \* number of times ChatInterface has been mounted
    deepSearch          \* useState(false) of the component that has a search switch

svcVars == <<history, systemInstruction, API_KEY, appended, netCalls, lastRequest, outcome,
             lastInit, imageResult>>

uiVars == <<user, messages, input, isLoading, isTyping, selectedMedia, activeAction,
            welcome, inflight, now, started, chunksSeen, imageInflight, orphans,
            mounts, deepSearch>>

vars == <<svcVars, uiVars>>

----------------------------------------------------------------------------
(* Bounds of the exploration *)

MaxAppends == 11        \* updateHistory calls explored after an initChat
MaxComposeTurns == 2    \* history length explored when requests are composed
MaxCalls == 2           \* sendMessageStream calls explored
MaxRequests == 2        \* submissions explored through the chat component
MaxChunks == 2          \* chunks delivered to the chat component, over all its streams
MaxStreamRequests == 1  \* submissions explored when the streams are varied
MaxStreamChunks == 3    \* chunks delivered when the streams are varied
MaxLiveRequests == 2    \* submissions explored when every request settles
MaxImageParts == 2       \* parts of a provider response to generateImage
MaxMounts == 2          \* users started, one after the other
MaxResetRequests == 2   \* submissions explored across resets
MaxResetChunks == 1     \* chunks delivered across resets
MaxMediaRequests == 2   \* submissions explored with media of every kind
MaxTurnsRequests == 8   \* submissions of the long conversation
MaxOneClickRequests == 1 \* requests explored in the component with the one-click toolkit
MaxOlderRequests == 1   \* submissions explored in the older component
MaxOlderChunks == 2     \* chunks delivered to the older component
MaxSearchRequests == 2  \* submissions explored in the component with the search switch
MaxLiveChunks == 2      \* chunks delivered when every request settles

(* Program constants *)

HistoryLimit == 10      \* if (this.history.length > 10) this.history.shift()

----------------------------------------------------------------------------
(* Values *)

undefined == [undefined |-> TRUE]

null == [null |-> TRUE]

NoAction == "null"

NoWelcome == [running |-> FALSE]

\* A string is truthy when it is not empty (a missing string is modelled as "").
Truthy(s) == s # << >>

Roles == {"user", "model"}

UserNames == {<<"A">>, <<"B">>}

Messages == {<< >>, <<"h", "i">>}

MediaValues ==
    { [data |-> <<"Q">>, mimeType |-> <<"image/png">>],
      [data |-> << >>,   mimeType |-> <<"image/png">>],
      [data |-> <<"Q">>, mimeType |-> << >>] }

OptionValues == { [useSearch |-> TRUE], [useSearch |-> FALSE], [none |-> TRUE] }

PartsValues == { <<[text |-> <<"h", "i">>]>> }

TEXT_MODEL == <<"gemini-3-flash-preview">>

NoOutcome == [kind |-> "none"]

IMAGE_MODEL == <<"gemini-2.5-flash-image">>

----------------------------------------------------------------------------
(* GeminiService *)

\* The template of initChat with ${userName} filled in.
InstructionFor(userName) ==
    <<"Role: IETE Bot.\nInstitution: Raghu Engineering College.\nUser: ">>
        \o userName
        \o <<".\nCapabilities: Expert in Engineering (Electronics, Telecom, IT) AND General Knowledge/Current Affairs.\n\nResponse Protocol:\n1. BE FAST AND CONCISE. Users want quick answers.\n2. If \"Deep Research\" is on, use search for 2024-2025 news/events.\n3. Use LaTeX for math: $$ [Formula] $$.\n4. Balance technical depth with general clarity.\n\nOperational Rule: Respond ONLY to the specific query provided. Do not repeat instructions.">>

\* getAI: throws when the key is missing, otherwise yields a client.
GetAINeverThrows == FALSE

GetAIThrows == ~Truthy(API_KEY)

MissingKeyError == <<"Missing API_KEY. Access restricted.">>

\* this.history.push({role, parts}); if (length > 10) this.history.shift()
Pushed(h, role, parts) == Append(h, [role |-> role, parts |-> parts])

ShiftedLate(h) == IF Len(h) > HistoryLimit + 1 THEN Tail(h) ELSE h

ShiftedNewest(h) == IF Len(h) > HistoryLimit THEN SubSeq(h, 1, Len(h) - 1) ELSE h

Shifted(h) == IF Len(h) > HistoryLimit THEN Tail(h) ELSE h

HistoryAfterUpdate(h, role, parts) == Shifted(Pushed(h, role, parts))

\* userParts of sendMessageStream
UserPartsMediaFirst(message, mediaData) ==
    (IF mediaData # undefined /\ Truthy(mediaData.data) /\ Truthy(mediaData.mimeType)
     THEN <<[inlineData |-> [data |-> mediaData.data, mimeType |-> mediaData.mimeType]]>>
     ELSE << >>)
        \o <<[text |-> message]>>

UserParts(message, mediaData) ==
    <<[text |-> message]>>
        \o (IF mediaData # undefined /\ Truthy(mediaData.data) /\ Truthy(mediaData.mimeType)
            THEN <<[inlineData |-> [data |-> mediaData.data, mimeType |-> mediaData.mimeType]]>>
            ELSE << >>)

\* const contents = [...this.history, { role: 'user', parts: userParts }]
ContentsNewestFirst(h, message, mediaData) ==
    <<[role |-> "user", parts |-> UserParts(message, mediaData)]>> \o h

Contents(h, message, mediaData) ==
    h \o <<[role |-> "user", parts |-> UserParts(message, mediaData)]>>

\* Whether contents is the array object this.history: the array literal with
\* the spread allocates a new array on every call.
ContentsIsTheHistoryArray == TRUE

ContentsSharesHistoryArray == FALSE

\* options.useSearch, undefined when the caller left it out
UseSearch(options) == "useSearch" \in DOMAIN options /\ options.useSearch

\* tools: options.useSearch ? [{ googleSearch: {} }] : undefined
\* (a property set to undefined is a property the request does not carry)
ConfigAlwaysSearch(instruction, options) ==
    [ systemInstruction |-> instruction,
      tools |-> <<[googleSearch |-> TRUE]>>,
      thinkingConfig |-> [thinkingBudget |-> 0] ]

Config(instruction, options) ==
    IF UseSearch(options)
    THEN [ systemInstruction |-> instruction,
           tools |-> <<[googleSearch |-> TRUE]>>,
           thinkingConfig |-> [thinkingBudget |-> 0] ]
    ELSE [ systemInstruction |-> instruction,
           thinkingConfig |-> [thinkingBudget |-> 0] ]

\* The argument of ai.models.generateContentStream
Request(h, instruction, message, mediaData, options) ==
    [ model |-> TEXT_MODEL,
      contents |-> Contents(h, message, mediaData),
      config |-> Config(instruction, options) ]

initChatKeepsHistory(userName) ==
    /\ systemInstruction' = InstructionFor(userName)
    /\ history' = history
    /\ appended' = << >>
    /\ lastInit' = [userName |-> userName]
    /\ UNCHANGED <<API_KEY, netCalls, lastRequest, outcome, imageResult>>

initChat(userName) ==
    /\ systemInstruction' = InstructionFor(userName)
    /\ history' = << >>
    /\ appended' = << >>
    /\ lastInit' = [userName |-> userName]
    /\ UNCHANGED <<API_KEY, netCalls, lastRequest, outcome, imageResult>>

updateHistory(role, parts) ==
    /\ history' = HistoryAfterUpdate(history, role, parts)
    /\ appended' = Append(appended, [role |-> role, parts |-> parts])
    /\ UNCHANGED <<systemInstruction, API_KEY, netCalls, lastRequest, outcome,
                   lastInit, imageResult>>

sendMessageStream(message, mediaData, options) ==
    /\ IF GetAIThrows
       THEN /\ outcome' = [kind |-> "error", message |-> MissingKeyError,
                           args |-> [message |-> message, mediaData |-> mediaData, options |-> options]]
            /\ UNCHANGED <<netCalls, lastRequest>>
       ELSE /\ netCalls' = netCalls + 1
            /\ lastRequest' = Request(history, systemInstruction, message, mediaData, options)
            /\ outcome' = [kind |-> "stream",
                           args |-> [message |-> message, mediaData |-> mediaData, options |-> options]]
    /\ UNCHANGED <<history, systemInstruction, API_KEY, appended, lastInit, imageResult>>

\* The argument of ai.models.generateContent
ImageRequest(prompt) ==
    [ model |-> IMAGE_MODEL,
      contents |-> [parts |-> <<[text |-> <<"Professional engineering blueprint/schematic: ">>
                                            \o prompt
                                            \o <<". IEEE standard symbols, clean technical look.">>]>>],
      config |-> [imageConfig |-> [aspectRatio |-> <<"1:1">>]] ]

\* response.candidates?.[0]?.content?.parts, and whether it is defined
HasParts(response) ==
    /\ "candidates" \in DOMAIN response
    /\ response.candidates # << >>
    /\ "content" \in DOMAIN response.candidates[1]
    /\ "parts" \in DOMAIN response.candidates[1].content

PartsOf(response) == response.candidates[1].content.parts

\* part.inlineData?.data
HasInlineData(part) ==
    /\ "inlineData" \in DOMAIN part
    /\ "data" \in DOMAIN part.inlineData
    /\ Truthy(part.inlineData.data)

\* { data: part.inlineData.data, mimeType: part.inlineData.mimeType || 'image/png' }
ImageOf(part) ==
    [ data |-> part.inlineData.data,
      mimeType |-> IF "mimeType" \in DOMAIN part.inlineData /\ Truthy(part.inlineData.mimeType)
                   THEN part.inlineData.mimeType
                   ELSE <<"image/png">> ]

\* the for loop over parts, and the return null it falls through to
RECURSIVE LastInlineImage(_)
LastInlineImage(parts) ==
    IF parts = << >> THEN null
    ELSE IF HasInlineData(parts[Len(parts)]) THEN ImageOf(parts[Len(parts)])
    ELSE LastInlineImage(SubSeq(parts, 1, Len(parts) - 1))

RECURSIVE FirstInlineImage(_)
FirstInlineImage(parts) ==
    IF parts = << >> THEN null
    ELSE IF HasInlineData(Head(parts)) THEN ImageOf(Head(parts))
    ELSE FirstInlineImage(Tail(parts))

\* What generateImage resolves to once the provider has answered; a rejection
\* of the provider is caught and logged, and null is returned.
ImageResultOf(response) ==
    IF "error" \in DOMAIN response THEN null
    ELSE IF ~HasParts(response) THEN null
    ELSE FirstInlineImage(PartsOf(response))

\* generateImage from its call to its settling; response is the provider's answer
generateImage(prompt, response) ==
    /\ imageResult' =
          IF GetAIThrows
          THEN [kind |-> "rejected", message |-> MissingKeyError, prompt |-> prompt]
          ELSE [kind |-> "resolved", prompt |-> prompt, request |-> ImageRequest(prompt),
                response |-> response, result |-> ImageResultOf(response)]
    /\ UNCHANGED <<history, systemInstruction, API_KEY, appended, netCalls, lastRequest,
                   outcome, lastInit>>

----------------------------------------------------------------------------
(* App and ChatInterface *)

\* getGreeting of the mount effect
getGreeting(h) ==
    IF h < 12 THEN <<"Good", " ", "morning">>
    ELSE IF h < 17 THEN <<"Good", " ", "afternoon">>
    ELSE <<"Good", " ", "evening">>

\* The welcome template; each run of literal text between two interpolations
\* is shortened to one word.
WelcomeText(name, h) ==
    <<"Hey", " ">> \o name \o <<"!", " ", "Welcome.", " ">> \o getGreeting(h)
        \o <<".", " ", "How-can-we-innovate-today?">>

\* String.prototype.split(" ")
RECURSIVE SplitFrom(_, _)
SplitFrom(s, cur) ==
    IF s = << >> THEN <<cur>>
    ELSE IF Head(s) = " " THEN <<cur>> \o SplitFrom(Tail(s), << >>)
    ELSE SplitFrom(Tail(s), Append(cur, Head(s)))

Split(s) == SplitFrom(s, << >>)

\* String.prototype.trim()
RECURSIVE TrimStart(_)
TrimStart(s) ==
    IF s # << >> /\ Head(s) = " " THEN TrimStart(Tail(s)) ELSE s

RECURSIVE TrimEnd(_)
TrimEnd(s) ==
    IF s # << >> /\ s[Len(s)] = " " THEN TrimEnd(SubSeq(s, 1, Len(s) - 1)) ELSE s

Trim(s) == TrimEnd(TrimStart(s))

\* Number.prototype.toString, and 'init-' + Date.now()
IdOf(t) == <<t>>

InitialIdOf(t) == <<"init-", t>>

\* record r with property f set to v
With(r, f, v) == (f :> v) @@ r

\* prev.map(msg => msg.id === id ? { ...msg, content } : msg)
SetContent(msgs, id, content) ==
    [k \in DOMAIN msgs |->
        IF msgs[k].id = id THEN [msgs[k] EXCEPT !.content = content] ELSE msgs[k]]

\* the switch of handleSend
PromptPrefix(action) ==
    CASE action = "formula_ocr" -> <<"OCR MODULE: Extract and digitize all technical text and mathematical formulas. Output LaTeX blocks: ">>
      [] action = "text_extract" -> <<"TEXT EXTRACTION: Transcribe all readable text precisely from image: ">>
      [] action = "step_by_step" -> <<"STEP-BY-STEP DERIVATION: Provide stage-by-stage solution for: ">>
      [] action = "direct" -> <<"DIRECT TECHNICAL FACT: Provide final result only for: ">>
      [] action = "debug" -> <<"CIRCUIT DIAGNOSTIC: Analyze visual/description for flaws: ">>
      [] action = "extract" -> <<"PARAMETER EXTRACTION: Tabulate parameters found in: ">>
      [] action = "boolean" -> <<"LOGIC SIMPLIFICATION: Provide K-Map and simplified logic for: ">>
      [] action = "gate_pyq" -> <<"GATE PYQ SEARCH: Solve a relevant GATE question for: ">>
      [] action = "pinout" -> <<"IC PINOUT GURU: Provide standard pinout mapping for: ">>
      [] action = "hdl" -> <<"HDL ARCHITECT: Generate Verilog/VHDL code and testbench for: ">>
      [] action = "project" -> <<"PROJECT BOT: Generate full project blueprint for: ">>
      [] action = "datasheet" -> <<"DATASHEET RESEARCH: Summarize key performance metrics for: ">>
      [] action = "viva" -> <<"VIVA PREP: Generate 5 viva questions/answers for: ">>
      [] OTHER -> << >>

\* textToProcess of handleSend
TextToProcess(inp, action) ==
    IF action # NoAction
    THEN PromptPrefix(action)
            \o (IF Trim(inp) # << >> THEN Trim(inp) ELSE <<"the provided context">>)
    ELSE Trim(inp)

SearchActions == {"gate_pyq", "datasheet", "pinout"}

\* chunk.text || ""
ChunkText(chunk) == IF "text" \in DOMAIN chunk THEN chunk.text ELSE << >>

\* fullContent += chunk.text || ""
AccumulatePrepended(fullContent, chunk) == ChunkText(chunk) \o fullContent

Accumulate(fullContent, chunk) == fullContent \o ChunkText(chunk)

\* c => ({ title: c.web?.title || 'Research Source', uri: c.web?.uri || '' })
SourceOf(c) ==
    [ title |-> IF "title" \in DOMAIN c /\ Truthy(c.title) THEN c.title ELSE <<"Research Source">>,
      uri |-> IF "uri" \in DOMAIN c THEN c.uri ELSE << >> ]

\* grounding.map(...) without the filter
RECURSIVE MapSources(_)
MapSources(g) ==
    IF g = << >> THEN << >> ELSE <<SourceOf(Head(g))>> \o MapSources(Tail(g))

\* grounding.map(...).filter(s => s.uri)
RECURSIVE MapFilterSources(_)
MapFilterSources(g) ==
    IF g = << >> THEN << >>
    ELSE (IF Truthy(SourceOf(Head(g)).uri) THEN <<SourceOf(Head(g))>> ELSE << >>)
            \o MapFilterSources(Tail(g))

\* newSources: undefined when the chunk carries no grounding chunks
HasGrounding(chunk) == "groundingChunks" \in DOMAIN chunk

NewSources(chunk) == MapFilterSources(chunk.groundingChunks)

\* sources: newSources?.length ? [...(msg.sources || []), ...newSources] : msg.sources
MergedSources(msg, chunk) ==
    (IF "sources" \in DOMAIN msg THEN msg.sources ELSE << >>) \o NewSources(chunk)

ChunkUpdate(msg, fullContent, chunk) ==
    IF HasGrounding(chunk) /\ NewSources(chunk) # << >>
    THEN With([msg EXCEPT !.content = fullContent], "sources", MergedSources(msg, chunk))
    ELSE [msg EXCEPT !.content = fullContent]

\* prev.map(msg => msg.id === assistantId ? { ...msg, content, sources } : msg)
ApplyChunk(msgs, id, fullContent, chunk) ==
    [k \in DOMAIN msgs |->
        IF msgs[k].id = id THEN ChunkUpdate(msgs[k], fullContent, chunk) ELSE msgs[k]]

FailureContent(errorMessage) == <<"Link Transmission Failure: ">> \o errorMessage

\* [{ text }, ...(media ? [{ inlineData: media }] : [])]
CommittedUserParts(text, media) ==
    <<[text |-> text]>>
        \o (IF media # undefined THEN <<[inlineData |-> media]>> ELSE << >>)

\* the turns of the two updateHistory calls that follow the for await loop
CommitTurnsModelFirst(text, media, fullContent) ==
    << [role |-> "model", parts |-> <<[text |-> fullContent]>>],
       [role |-> "user", parts |-> CommittedUserParts(text, media)] >>

CommitTurns(text, media, fullContent) ==
    << [role |-> "user", parts |-> CommittedUserParts(text, media)],
       [role |-> "model", parts |-> <<[text |-> fullContent]>>] >>

\* handleStart of App, the first render of ChatInterface and its mount effect
handleStart(name, hour) ==
    /\ user = null
    /\ user' = [name |-> name]
    /\ messages' = <<[id |-> InitialIdOf(now), role |-> "assistant", content |-> << >>]>>
    /\ initChat(name)
    /\ isTyping' = TRUE
    /\ welcome' = [running |-> TRUE, initialId |-> InitialIdOf(now),
                   words |-> Split(WelcomeText(name, hour)), i |-> 0, current |-> << >>]
    /\ mounts' = mounts + 1
    /\ UNCHANGED <<input, isLoading, selectedMedia, activeAction, inflight, now,
                   started, chunksSeen, imageInflight, orphans, deepSearch>>

\* one firing of the welcome interval
WelcomeTick ==
    /\ welcome.running
    /\ IF welcome.i < Len(welcome.words)
       THEN LET current == welcome.current
                            \o (IF welcome.i = 0 THEN << >> ELSE <<" ">>)
                            \o welcome.words[welcome.i + 1]
            IN /\ welcome' = [welcome EXCEPT !.current = current, !.i = @ + 1]
               /\ messages' = SetContent(messages, welcome.initialId, current)
               /\ UNCHANGED isTyping
       ELSE /\ welcome' = NoWelcome
            /\ isTyping' = FALSE
            /\ UNCHANGED messages
    /\ UNCHANGED <<svcVars, user, input, isLoading, selectedMedia, activeAction,
                   inflight, now, started, chunksSeen,
                   imageInflight, orphans, mounts, deepSearch>>

\* onChange of the text input, which is disabled while isLoading || isTyping
setInput(value) ==
    /\ user # null
    /\ ~(isLoading \/ isTyping)
    /\ input # value
    /\ input' = value
    /\ UNCHANGED <<svcVars, user, messages, isLoading, isTyping, selectedMedia,
                   activeAction, welcome, inflight, now, started, chunksSeen,
                   imageInflight, orphans, mounts, deepSearch>>

\* handleFileChange, when its FileReader has loaded the file
handleFileChange(media) ==
    /\ user # null
    /\ selectedMedia # media
    /\ selectedMedia' = media
    /\ UNCHANGED <<svcVars, user, messages, input, isLoading, isTyping,
                   activeAction, welcome, inflight, now, started, chunksSeen,
                   imageInflight, orphans, mounts, deepSearch>>

\* (the upload menu it opens for a vision tool is not part of the state)
handleActionClick(type) ==
    /\ user # null
    /\ ~(isLoading \/ isTyping)
    /\ activeAction' = IF activeAction = type THEN NoAction ELSE type
    /\ UNCHANGED <<svcVars, user, messages, input, isLoading, isTyping,
                   selectedMedia, welcome, inflight, now, started, chunksSeen,
                   imageInflight, orphans, mounts, deepSearch>>

\* the remove button of the media preview
clearSelectedMedia ==
    /\ user # null
    /\ selectedMedia # null
    /\ selectedMedia' = null
    /\ UNCHANGED <<svcVars, user, messages, input, isLoading, isTyping,
                   activeAction, welcome, inflight, now, started, chunksSeen,
                   imageInflight, orphans, mounts, deepSearch>>

\* processMessage up to its first await, the catch and finally blocks included
\* when sendMessageStream throws at once; tick is the time that passes between
\* the two readings of Date.now()
processMessage(text, media, useSearch, tick) ==
    LET assistantId == IdOf(now + tick + 1)
        userMsg == IF media # undefined
                   THEN [id |-> IdOf(now), role |-> "user", content |-> text, image |-> media]
                   ELSE [id |-> IdOf(now), role |-> "user", content |-> text]
        shown == messages \o <<userMsg,
                    [id |-> assistantId, role |-> "assistant", content |-> << >>]>>
    IN  /\ ~(isLoading \/ isTyping)
        /\ sendMessageStream(text, media, [useSearch |-> useSearch])
        /\ IF GetAIThrows
           THEN /\ messages' = SetContent(shown, assistantId, FailureContent(MissingKeyError))
                /\ isLoading' = FALSE
                /\ activeAction' = NoAction
                /\ UNCHANGED inflight
           ELSE /\ messages' = shown
                /\ isLoading' = TRUE
                /\ inflight' = Append(inflight,
                        [ text |-> text, media |-> media, useSearch |-> useSearch,
                          assistantId |-> assistantId, fullContent |-> << >>,
                          chunks |-> << >> ])
                /\ UNCHANGED activeAction
        /\ now' = now + 3
        /\ started' = started + 1

\* handleSend for every tool but 'visualize'
handleSend(tick) ==
    LET textToProcess == TextToProcess(input, activeAction)
        media == IF selectedMedia # null THEN selectedMedia ELSE undefined
    IN  /\ user # null
        /\ ~(isLoading \/ isTyping)
        /\ activeAction # "visualize"
        /\ ~(textToProcess = << >> /\ selectedMedia = null)
        /\ input' = << >>
        /\ selectedMedia' = null
        /\ processMessage(textToProcess, media, activeAction \in SearchActions, tick)
        /\ UNCHANGED <<user, isTyping, welcome, chunksSeen,
                   imageInflight, orphans, mounts, deepSearch>>

\* one iteration of the for await loop of the r-th suspended processMessage
StreamChunk(r, chunk) ==
    LET req == inflight[r]
        fullContent == Accumulate(req.fullContent, chunk)
    IN  /\ inflight' = [inflight EXCEPT ![r] =
                [req EXCEPT !.fullContent = fullContent, !.chunks = Append(@, chunk)]]
        /\ messages' = ApplyChunk(messages, req.assistantId, fullContent, chunk)
        /\ chunksSeen' = chunksSeen + 1
        /\ UNCHANGED <<svcVars, user, input, isLoading, isTyping, selectedMedia,
                       activeAction, welcome, now, started, imageInflight, orphans, mounts, deepSearch>>

Without(seq, r) == SubSeq(seq, 1, r - 1) \o SubSeq(seq, r + 1, Len(seq))

\* the stream ends: the two updateHistory calls and the finally block
StreamEndEmptyFails(r) ==
    LET req == inflight[r]
        turns == CommitTurns(req.text, req.media, req.fullContent)
    IN  /\ IF req.chunks = << >>
           THEN /\ messages' = SetContent(messages, req.assistantId,
                                          FailureContent(<<"Empty response.">>))
                /\ UNCHANGED <<history, appended>>
           ELSE /\ history' = HistoryAfterUpdate(
                                  HistoryAfterUpdate(history, turns[1].role, turns[1].parts),
                                  turns[2].role, turns[2].parts)
                /\ appended' = appended \o turns
                /\ UNCHANGED messages
        /\ isLoading' = FALSE
        /\ activeAction' = NoAction
        /\ inflight' = Without(inflight, r)
        /\ UNCHANGED <<systemInstruction, API_KEY, netCalls, lastRequest, outcome,
                       lastInit, imageResult, user, input, isTyping, selectedMedia,
                       welcome, now, started, chunksSeen, imageInflight, orphans, mounts, deepSearch>>

StreamEnd(r) ==
    LET req == inflight[r]
        turns == CommitTurns(req.text, req.media, req.fullContent)
    IN  /\ history' = HistoryAfterUpdate(
                          HistoryAfterUpdate(history, turns[1].role, turns[1].parts),
                          turns[2].role, turns[2].parts)
        /\ appended' = appended \o turns
        /\ isLoading' = FALSE
        /\ activeAction' = NoAction
        /\ inflight' = Without(inflight, r)
        /\ UNCHANGED <<systemInstruction, API_KEY, netCalls, lastRequest, outcome,
                       lastInit, imageResult, user, messages, input, isTyping, selectedMedia, welcome, now,
                       started, chunksSeen,
                   imageInflight, orphans, mounts, deepSearch>>

\* the call or the stream rejects: the catch and finally blocks
StreamFailRetries(r, errorMessage) ==
    /\ netCalls' = netCalls + 1
    /\ lastRequest' = lastRequest
    /\ UNCHANGED <<history, systemInstruction, API_KEY, appended, outcome, lastInit,
                   imageResult, uiVars>>

StreamFailCommits(r, errorMessage) ==
    LET req == inflight[r]
        turns == CommitTurns(req.text, req.media, req.fullContent)
    IN  /\ messages' = SetContent(messages, req.assistantId, FailureContent(errorMessage))
        /\ history' = HistoryAfterUpdate(
                          HistoryAfterUpdate(history, turns[1].role, turns[1].parts),
                          turns[2].role, turns[2].parts)
        /\ appended' = appended \o turns
        /\ isLoading' = FALSE
        /\ activeAction' = NoAction
        /\ inflight' = Without(inflight, r)
        /\ UNCHANGED <<systemInstruction, API_KEY, netCalls, lastRequest, outcome,
                       lastInit, imageResult, user, input, isTyping, selectedMedia,
                       welcome, now, started, chunksSeen, imageInflight, orphans, mounts, deepSearch>>

StreamFailNoFinally(r, errorMessage) ==
    LET req == inflight[r]
    IN  /\ messages' = SetContent(messages, req.assistantId, FailureContent(errorMessage))
        /\ inflight' = Without(inflight, r)
        /\ UNCHANGED <<svcVars, user, input, isLoading, isTyping, selectedMedia,
                       activeAction, welcome, now, started, chunksSeen,
                       imageInflight, orphans, mounts, deepSearch>>

StreamFail(r, errorMessage) ==
    LET req == inflight[r]
    IN  /\ messages' = SetContent(messages, req.assistantId, FailureContent(errorMessage))
        /\ isLoading' = FALSE
        /\ activeAction' = NoAction
        /\ inflight' = Without(inflight, r)
        /\ UNCHANGED <<svcVars, user, input, isTyping, selectedMedia, welcome, now,
                       started, chunksSeen,
                   imageInflight, orphans, mounts, deepSearch>>

VisualFailure(errorMessage) == <<"Visualization Failure: ">> \o errorMessage

\* prev.map(msg => msg.id === assistantId ? { ...msg, content, image } : msg)
SetImage(msgs, id, content, image) ==
    [k \in DOMAIN msgs |->
        IF msgs[k].id = id
        THEN With([msgs[k] EXCEPT !.content = content], "image", image)
        ELSE msgs[k]]

\* processVisualizer up to its await, the catch and finally blocks included
\* when generateImage rejects at once; tick is the time that passes between
\* the two readings of Date.now()
processVisualizer(topic, tick) ==
    LET assistantId == IdOf(now + 1)
        shown == messages \o
                    << [id |-> IdOf(now + tick), role |-> "user",
                        content |-> <<"Blueprint Request: ">> \o topic],
                       [id |-> assistantId, role |-> "assistant",
                        content |-> <<"Synthesizing institutional schematic...">>] >>
    IN  /\ IF GetAIThrows
           THEN /\ generateImage(topic, undefined)
                /\ messages' = SetContent(shown, assistantId, VisualFailure(MissingKeyError))
                /\ isLoading' = FALSE
                /\ activeAction' = NoAction
                /\ UNCHANGED imageInflight
           ELSE /\ messages' = shown
                /\ isLoading' = TRUE
                /\ imageInflight' = Append(imageInflight,
                        [topic |-> topic, assistantId |-> assistantId])
                /\ UNCHANGED <<svcVars, activeAction>>
        /\ now' = now + 3

\* handleSend when the active tool is 'visualize'; promptAnswer is what
\* window.prompt returns ("" when it is cancelled or left empty)
handleSendVisualize(promptAnswer, tick) ==
    LET topic == IF Trim(input) # << >> THEN Trim(input) ELSE promptAnswer
    IN  /\ user # null
        /\ ~(isLoading \/ isTyping)
        /\ activeAction = "visualize"
        /\ IF topic = << >>
           THEN /\ input' = << >>
                /\ selectedMedia' = null
                /\ UNCHANGED <<svcVars, messages, isLoading, activeAction, imageInflight, now>>
           ELSE /\ processVisualizer(topic, tick)
                /\ IF GetAIThrows
                   THEN input' = << >> /\ selectedMedia' = null
                   ELSE UNCHANGED <<input, selectedMedia>>
        /\ UNCHANGED <<user, isTyping, welcome, inflight, started, chunksSeen, orphans,
                       mounts, deepSearch>>

\* generateImage settles: the rest of processVisualizer, then the rest of
\* handleSend
ImageSettle(v, response) ==
    LET req == imageInflight[v]
        result == ImageResultOf(response)
    IN  /\ generateImage(req.topic, response)
        /\ messages' =
              IF result # null
              THEN SetImage(messages, req.assistantId,
                            <<"Institutional blueprint for **">> \o req.topic \o <<"** rendered.">>,
                            [data |-> result.data, mimeType |-> result.mimeType])
              ELSE SetContent(messages, req.assistantId,
                              VisualFailure(<<"Failed to generate visual.">>))
        /\ isLoading' = FALSE
        /\ activeAction' = NoAction
        /\ imageInflight' = Without(imageInflight, v)
        /\ input' = << >>
        /\ selectedMedia' = null
        /\ UNCHANGED <<user, isTyping, welcome, inflight, now, started, chunksSeen,
                       orphans, mounts, deepSearch>>

RECURSIVE Orphaned(_, _)
Orphaned(kind, calls) ==
    IF calls = << >> THEN << >>
    ELSE <<[kind |-> kind, req |-> Head(calls)]>> \o Orphaned(kind, Tail(calls))

\* handleReset of App: ChatInterface is unmounted, its state is gone and the
\* cleanup of its effect clears the welcome interval; its suspended calls go on
handleReset ==
    /\ user # null
    /\ user' = null
    /\ messages' = << >>
    /\ input' = << >>
    /\ isLoading' = FALSE
    /\ isTyping' = FALSE
    /\ selectedMedia' = null
    /\ activeAction' = NoAction
    /\ welcome' = NoWelcome
    /\ orphans' = orphans \o Orphaned("stream", inflight) \o Orphaned("image", imageInflight)
    /\ inflight' = << >>
    /\ imageInflight' = << >>
    /\ UNCHANGED <<svcVars, now, started, chunksSeen, mounts, deepSearch>>

\* The suspended calls of an unmounted component: their state setters do
\* nothing, their calls of the shared geminiService act as ever.
OrphanChunk(o, chunk) ==
    /\ orphans[o].kind = "stream"
    /\ orphans' = [orphans EXCEPT ![o].req =
            [@ EXCEPT !.fullContent = Accumulate(@, chunk), !.chunks = Append(@, chunk)]]
    /\ chunksSeen' = chunksSeen + 1
    /\ UNCHANGED <<svcVars, user, messages, input, isLoading, isTyping, selectedMedia,
                   activeAction, welcome, inflight, now, started, imageInflight, mounts, deepSearch>>

OrphanEnd(o) ==
    LET req == orphans[o].req
        turns == CommitTurns(req.text, req.media, req.fullContent)
    IN  /\ orphans[o].kind = "stream"
        /\ history' = HistoryAfterUpdate(
                          HistoryAfterUpdate(history, turns[1].role, turns[1].parts),
                          turns[2].role, turns[2].parts)
        /\ appended' = appended \o turns
        /\ orphans' = Without(orphans, o)
        /\ UNCHANGED <<systemInstruction, API_KEY, netCalls, lastRequest, outcome,
                       lastInit, imageResult, user, messages, input, isLoading, isTyping,
                       selectedMedia, activeAction, welcome, inflight, now, started,
                       chunksSeen, imageInflight, mounts, deepSearch>>

OrphanFail(o) ==
    /\ orphans[o].kind = "stream"
    /\ orphans' = Without(orphans, o)
    /\ UNCHANGED <<svcVars, user, messages, input, isLoading, isTyping, selectedMedia,
                   activeAction, welcome, inflight, now, started, chunksSeen,
                   imageInflight, mounts, deepSearch>>

OrphanImageSettle(o, response) ==
    /\ orphans[o].kind = "image"
    /\ generateImage(orphans[o].req.topic, response)
    /\ orphans' = Without(orphans, o)
    /\ UNCHANGED <<user, messages, input, isLoading, isTyping, selectedMedia,
                   activeAction, welcome, inflight, now, started, chunksSeen,
                   imageInflight, mounts, deepSearch>>

----------------------------------------------------------------------------
(* The chat component that has a search switch (src/unnamed/part_009, the
   component defined at lines 360-771).  Its welcome interval, its input, its
   for await loop and its commit after the loop are the code of the component
   above. *)

\* The welcome template; each run of literal text between two interpolations
\* is shortened to one word.
SearchWelcomeText(name, h, deep) ==
    getGreeting(h) \o <<",", " ">> \o name \o <<"!", " ", "Terminal-online.", " ">>
        \o (IF deep THEN <<"Current-Affairs-&-General-Search-mode-enabled.">>
                    ELSE <<"Specialized-Engineering-mode-enabled.">>)
        \o <<" ", "Type-your-message-and-click-EXECUTE.">>

\* the effect with the dependencies [user.name, deepSearch]
SearchEffect(name, hour, deep) ==
    /\ messages' = <<[id |-> InitialIdOf(now), role |-> "assistant", content |-> << >>]>>
    /\ initChat(name)
    /\ isTyping' = TRUE
    /\ welcome' = [running |-> TRUE, initialId |-> InitialIdOf(now),
                   words |-> Split(SearchWelcomeText(name, hour, deep)),
                   i |-> 0, current |-> << >>]

\* handleStart of App, the first render of the component and its effect
handleStartSearch(name, hour) ==
    /\ user = null
    /\ user' = [name |-> name]
    /\ SearchEffect(name, hour, deepSearch)
    /\ mounts' = mounts + 1
    /\ UNCHANGED <<input, isLoading, selectedMedia, activeAction, inflight, now,
                   started, chunksSeen, imageInflight, orphans, deepSearch>>

\* onClick of the search switch, setDeepSearch(!deepSearch): the cleanup of
\* the effect clears the welcome interval and the effect runs again
toggleDeepSearch(hour) ==
    /\ user # null
    /\ deepSearch' = ~deepSearch
    /\ SearchEffect(user.name, hour, ~deepSearch)
    /\ UNCHANGED <<user, input, isLoading, selectedMedia, activeAction, inflight, now,
                   started, chunksSeen, imageInflight, orphans, mounts>>

\* the switch of handleSend
PromptPrefixSearch(action) ==
    CASE action = "formulas_only" -> <<"[FORMULA REPOSITORY] ">>
      [] action = "unit_converter" -> <<"[UNIT CONVERSION] ">>
      [] action = "lab_assistant" -> <<"[LAB ASSISTANT] ">>
      [] action = "component_finder" -> <<"[IC FINDER] ">>
      [] action = "code_explainer" -> <<"[EXPLAIN CODE] ">>
      [] action = "formula_ocr" -> <<"[OCR] ">>
      [] action = "text_extract" -> <<"[TEXT EXTRACT] ">>
      [] action = "step_by_step" -> <<"[STEPS] ">>
      [] action = "direct" -> <<"[DIRECT] ">>
      [] action = "debug" -> <<"[DEBUG] ">>
      [] action = "extract" -> <<"[TABLE] ">>
      [] action = "boolean" -> <<"[LOGIC] ">>
      [] action = "gate_pyq" -> <<"[GATE] ">>
      [] action = "pinout" -> <<"[PINOUT] ">>
      [] action = "hdl" -> <<"[HDL] ">>
      [] action = "project" -> <<"[PROJECT] ">>
      [] action = "datasheet" -> <<"[DATASHEET] ">>
      [] action = "viva" -> <<"[VIVA] ">>
      [] OTHER -> << >>

TextToProcessSearch(inp, action) ==
    IF action # NoAction
    THEN PromptPrefixSearch(action)
            \o (IF Trim(inp) # << >> THEN Trim(inp) ELSE <<"Analysis request.">>)
    ELSE Trim(inp)

\* processMessage up to its first await, the catch and finally blocks included
\* when sendMessageStream throws at once
processMessageSearch(text, media, useSearch, tick) ==
    LET assistantId == IdOf(now + tick + 1)
        userMsg == IF media # undefined
                   THEN [id |-> IdOf(now), role |-> "user", content |-> text, image |-> media]
                   ELSE [id |-> IdOf(now), role |-> "user", content |-> text]
        shown == messages \o <<userMsg,
                    [id |-> assistantId, role |-> "assistant", content |-> << >>]>>
    IN  /\ ~(isLoading \/ isTyping)
        /\ sendMessageStream(text, media, [useSearch |-> (useSearch \/ deepSearch)])
        /\ IF GetAIThrows
           THEN /\ messages' = SetContent(shown, assistantId, <<"Connection reset: ">> \o MissingKeyError)
                /\ isLoading' = FALSE
                /\ activeAction' = NoAction
                /\ UNCHANGED inflight
           ELSE /\ messages' = shown
                /\ isLoading' = TRUE
                /\ inflight' = Append(inflight,
                        [ text |-> text, media |-> media,
                          useSearch |-> (useSearch \/ deepSearch),
                          assistantId |-> assistantId, fullContent |-> << >>,
                          chunks |-> << >> ])
                /\ UNCHANGED activeAction
        /\ now' = now + 3
        /\ started' = started + 1

\* handleSend for every tool but 'visualize'
handleSendSearch(tick) ==
    LET textToProcess == TextToProcessSearch(input, activeAction)
        media == IF selectedMedia # null THEN selectedMedia ELSE undefined
    IN  /\ user # null
        /\ ~(isLoading \/ isTyping)
        /\ activeAction # "visualize"
        /\ ~(textToProcess = << >> /\ selectedMedia = null)
        /\ input' = << >>
        /\ selectedMedia' = null
        /\ processMessageSearch(textToProcess, media,
                                (activeAction \in {"gate_pyq", "datasheet", "pinout", "component_finder"})
                                    \/ deepSearch, tick)
        /\ UNCHANGED <<user, isTyping, welcome, chunksSeen, imageInflight, orphans,
                       mounts, deepSearch>>

\* the call or the stream rejects: the catch and finally blocks
StreamFailSearch(r, errorMessage) ==
    LET req == inflight[r]
    IN  /\ messages' = SetContent(messages, req.assistantId, <<"Connection reset: ">> \o errorMessage)
        /\ isLoading' = FALSE
        /\ activeAction' = NoAction
        /\ inflight' = Without(inflight, r)
        /\ UNCHANGED <<svcVars, user, input, isTyping, selectedMedia, welcome, now,
                       started, chunksSeen, imageInflight, orphans, mounts, deepSearch>>

----------------------------------------------------------------------------
(* The chat component with the one-click toolkit (the first component of
   src/components/ChatInterface.tsx, lines 1-371): a click on a tool sends at
   once.  Its welcome interval, its text input, its file input and the remove
   button of its media preview are the code of the component above. *)

OneClickWelcomeText(name, h) ==
    <<"Neural-Link-established.", " ">> \o getGreeting(h) \o <<",", " ">> \o name
        \o <<".", " ", "All-modules-online.">>

handleStartOneClick(name, hour) ==
    /\ user = null
    /\ user' = [name |-> name]
    /\ messages' = <<[id |-> InitialIdOf(now), role |-> "assistant", content |-> << >>]>>
    /\ initChat(name)
    /\ isTyping' = TRUE
    /\ welcome' = [running |-> TRUE, initialId |-> InitialIdOf(now),
                   words |-> Split(OneClickWelcomeText(name, hour)),
                   i |-> 0, current |-> << >>]
    /\ mounts' = mounts + 1
    /\ UNCHANGED <<input, isLoading, selectedMedia, activeAction, inflight, now,
                   started, chunksSeen, imageInflight, orphans, deepSearch>>

\* the text each case of the switch puts before the context
ToolInstruction(type) ==
    CASE type = "step_by_step" ->
            <<"STEP-BY-STEP DERIVATION: Provide a comprehensive stage-by-stage solution for: ">>
      [] type = "direct" ->
            <<"DIRECT TECHNICAL FACT: Provide the final result/value only for: ">>
      [] type = "debug" ->
            <<"CIRCUIT DIAGNOSTIC: Analyze this visual feed or description for flaws: ">>
      [] type = "extract" ->
            <<"PARAMETER EXTRACTION: Tabulate all electrical and physical parameters found in: ">>
      [] type = "boolean" ->
            <<"LOGIC SIMPLIFICATION: Provide K-Map and simplified Boolean logic for: ">>
      [] type = "gate_pyq" ->
            <<"GATE PYQ SEARCH: Solve a relevant Graduate Aptitude Test in Engineering question for: ">>
      [] type = "pinout" ->
            <<"IC PINOUT GURU: Provide the standard pinout and functional mapping for: ">>
      [] type = "hdl" ->
            <<"HDL ARCHITECT: Generate optimized Verilog/VHDL code and testbench for: ">>
      [] type = "project" ->
            <<"PROJECT BOT: Generate a full engineering project blueprint for: ">>
      [] type = "datasheet" ->
            <<"DATASHEET RESEARCH: Search and summarize key performance metrics for: ">>
      [] type = "viva" ->
            <<"VIVA PREP: Generate 5 high-level viva questions and answers for: ">>
      [] OTHER -> << >>

\* promptSuffix as the switch leaves it
PromptSuffix(type, context) ==
    IF type = "formula_ocr"
    THEN <<"OCR MODULE: Extract and digitize all technical text and mathematical formulas from the attached image. Use standalone LaTeX blocks for equations.">>
    ELSE ToolInstruction(type) \o context

\* String.prototype.replace with a string pattern: the first occurrence is
\* replaced, and the empty pattern occurs at the start of every string
Replace(str, pattern, replacement) ==
    LET hits == { k \in 1..(Len(str) - Len(pattern) + 1) :
                      SubSeq(str, k, k + Len(pattern) - 1) = pattern }
    IN  IF hits = {} THEN str
        ELSE LET k == CHOOSE h \in hits : \A g \in hits : h <= g
             IN  SubSeq(str, 1, k - 1) \o replacement
                     \o SubSeq(str, k + Len(pattern), Len(str))

\* processMessage up to its first await, the catch and finally blocks included
\* when sendMessageStream throws at once; tool and userContext are the
\* locals of the handleActionClick that awaits it (NoAction when handleSend
\* called it)
processMessageOneClick(text, media, useSearch, tick, tool, userContext) ==
    LET assistantId == IdOf(now + tick + 1)
        userMsg == IF media # undefined
                   THEN [id |-> IdOf(now), role |-> "user", content |-> text, image |-> media]
                   ELSE [id |-> IdOf(now), role |-> "user", content |-> text]
        shown == messages \o <<userMsg,
                    [id |-> assistantId, role |-> "assistant", content |-> << >>]>>
    IN  /\ ~(isLoading \/ isTyping)
        /\ sendMessageStream(text, media, [useSearch |-> useSearch])
        /\ IF GetAIThrows
           THEN /\ messages' = SetContent(shown, assistantId, <<"Link Transmission Failure: ">> \o MissingKeyError)
                /\ isLoading' = FALSE
                /\ UNCHANGED inflight
           ELSE /\ messages' = shown
                /\ isLoading' = TRUE
                /\ inflight' = Append(inflight,
                        [ text |-> text, media |-> media, useSearch |-> useSearch,
                          assistantId |-> assistantId, fullContent |-> << >>,
                          chunks |-> << >>, tool |-> tool, context |-> Trim(input),
                          userContext |-> userContext ])
        /\ now' = now + 3
        /\ started' = started + 1

\* processVisualizer up to its await, the catch and finally blocks included
\* when generateImage rejects at once
processVisualizerOneClick(topic, tick) ==
    LET assistantId == IdOf(now + 1)
        shown == messages \o
                    << [id |-> IdOf(now + tick), role |-> "user",
                        content |-> <<"Requesting Blueprint: ">> \o topic],
                       [id |-> assistantId, role |-> "assistant",
                        content |-> <<"Synthesizing institutional schematic...">>] >>
    IN  /\ IF GetAIThrows
           THEN /\ generateImage(topic, undefined)
                /\ messages' = SetContent(shown, assistantId, VisualFailure(MissingKeyError))
                /\ isLoading' = FALSE
                /\ UNCHANGED imageInflight
           ELSE /\ messages' = shown
                /\ isLoading' = TRUE
                /\ imageInflight' = Append(imageInflight,
                        [topic |-> topic, assistantId |-> assistantId])
                /\ UNCHANGED svcVars
        /\ now' = now + 3

\* handleActionClick; promptAnswer is what window.prompt returns when it is
\* shown ("" when it is cancelled or left empty).  A vision tool without
\* media only opens the file picker.
handleActionClickOneClick(type, promptAnswer, tick) ==
    LET context == Trim(input)
        asked == context = << >> /\ selectedMedia = null
        promptSuffix == IF asked
                        THEN Replace(PromptSuffix(type, context), context, promptAnswer)
                        ELSE PromptSuffix(type, context)
        media == IF selectedMedia # null THEN selectedMedia ELSE undefined
    IN  /\ user # null
        /\ ~(isLoading \/ isTyping)
        /\ ~(type \in {"formula_ocr", "debug", "extract"} /\ selectedMedia = null)
        /\ IF type = "visualize"
           THEN /\ (IF context # << >> THEN context ELSE promptAnswer) # << >>
                /\ processVisualizerOneClick(
                        IF context # << >> THEN context ELSE promptAnswer, tick)
                /\ UNCHANGED <<input, selectedMedia, inflight, started>>
           ELSE /\ ~(asked /\ promptAnswer = << >>)
                /\ processMessageOneClick(promptSuffix, media, type \in {"gate_pyq", "datasheet", "pinout"},
                                          tick, type, IF asked THEN promptAnswer ELSE << >>)
                /\ IF GetAIThrows
                   THEN selectedMedia' = null /\ input' = << >>
                   ELSE UNCHANGED <<input, selectedMedia>>
                /\ UNCHANGED imageInflight
        /\ UNCHANGED <<user, isTyping, activeAction, welcome, chunksSeen, orphans,
                       mounts, deepSearch>>

handleSendOneClick(tick) ==
    LET media == IF selectedMedia # null THEN selectedMedia ELSE undefined
    IN  /\ user # null
        /\ ~((Trim(input) = << >> /\ selectedMedia = null) \/ isLoading \/ isTyping)
        /\ input' = << >>
        /\ selectedMedia' = null
        /\ processMessageOneClick(input, media, FALSE, tick, NoAction, << >>)
        /\ UNCHANGED <<user, isTyping, activeAction, welcome, chunksSeen, imageInflight,
                       orphans, mounts, deepSearch>>

\* what handleActionClick does after its await of processMessage
AfterProcessMessage(req) ==
    IF req.tool # NoAction
    THEN selectedMedia' = null /\ input' = << >>
    ELSE UNCHANGED <<input, selectedMedia>>

\* the loop ends: both turns are committed; finally setIsLoading(false)
StreamEndOneClick(r) ==
    LET req == inflight[r]
        turns == CommitTurns(req.text, req.media, req.fullContent)
    IN  /\ history' = HistoryAfterUpdate(
                          HistoryAfterUpdate(history, turns[1].role, turns[1].parts),
                          turns[2].role, turns[2].parts)
        /\ appended' = appended \o turns
        /\ isLoading' = FALSE
        /\ inflight' = Without(inflight, r)
        /\ AfterProcessMessage(req)
        /\ UNCHANGED <<systemInstruction, API_KEY, netCalls, lastRequest, outcome,
                       lastInit, imageResult, user, messages, isTyping,
                       activeAction, welcome, now, started, chunksSeen,
                       imageInflight, orphans, mounts, deepSearch>>

\* the call or the stream rejects: the catch and finally blocks
StreamFailOneClick(r, errorMessage) ==
    LET req == inflight[r]
    IN  /\ messages' = SetContent(messages, req.assistantId, <<"Link Transmission Failure: ">> \o errorMessage)
        /\ isLoading' = FALSE
        /\ inflight' = Without(inflight, r)
        /\ AfterProcessMessage(req)
        /\ UNCHANGED <<svcVars, user, isTyping, activeAction,
                       welcome, now, started, chunksSeen, imageInflight, orphans,
                       mounts, deepSearch>>

\* generateImage settles: the rest of processVisualizer, which has no else
\* branch for a null result
ImageSettleOneClick(v, response) ==
    LET req == imageInflight[v]
        result == ImageResultOf(response)
    IN  /\ generateImage(req.topic, response)
        /\ messages' =
              IF result # null
              THEN SetImage(messages, req.assistantId,
                            <<"Institutional blueprint for **">> \o req.topic \o <<"** rendered.">>,
                            [data |-> result.data, mimeType |-> result.mimeType])
              ELSE messages
        /\ isLoading' = FALSE
        /\ imageInflight' = Without(imageInflight, v)
        /\ UNCHANGED <<user, input, isTyping, selectedMedia, activeAction, welcome,
                       inflight, now, started, chunksSeen, orphans, mounts, deepSearch>>

----------------------------------------------------------------------------
(* The older chat component (src/unnamed/part_009, the component defined at
   lines 1-359), which calls sendMessageStream(text, media) without options
   and has neither tools with prefixes nor a search switch. *)

OlderWelcomeText(name, h) ==
    getGreeting(h) \o <<",", " ">> \o name \o <<"!", " ", "I-am-IETE-Bot.">>

\* id: 'initial'
OlderInitialId == <<"initial", 0>>

\* handleStart of App, the first render of the older component and its effect
handleStartOlder(name, hour) ==
    /\ user = null
    /\ user' = [name |-> name]
    /\ messages' = <<[id |-> OlderInitialId, role |-> "assistant", content |-> << >>]>>
    /\ initChat(name)
    /\ isTyping' = TRUE
    /\ welcome' = [running |-> TRUE, initialId |-> OlderInitialId,
                   words |-> Split(OlderWelcomeText(name, hour)), i |-> 0, current |-> << >>]
    /\ mounts' = mounts + 1
    /\ UNCHANGED <<input, isLoading, selectedMedia, activeAction, inflight, now,
                   started, chunksSeen, imageInflight, orphans, deepSearch>>

\* one firing of the welcome interval: setMessages([{ ...initialMessage, content }])
WelcomeTickOlder ==
    /\ welcome.running
    /\ IF welcome.i < Len(welcome.words)
       THEN LET current == welcome.current
                            \o (IF welcome.i = 0 THEN << >> ELSE <<" ">>)
                            \o welcome.words[welcome.i + 1]
            IN /\ welcome' = [welcome EXCEPT !.current = current, !.i = @ + 1]
               /\ messages' = <<[id |-> OlderInitialId, role |-> "assistant",
                                 content |-> current]>>
               /\ UNCHANGED isTyping
       ELSE /\ welcome' = NoWelcome
            /\ isTyping' = FALSE
            /\ UNCHANGED messages
    /\ UNCHANGED <<svcVars, user, input, isLoading, selectedMedia, activeAction,
                   inflight, now, started, chunksSeen,
                   imageInflight, orphans, mounts, deepSearch>>

\* processMessage up to its first await, the catch and finally blocks included
\* when sendMessageStream throws at once
processMessageOlder(text, media, tick) ==
    LET assistantId == IdOf(now + tick + 1)
        userMsg == IF media # undefined
                   THEN [id |-> IdOf(now), role |-> "user", content |-> text, image |-> media]
                   ELSE [id |-> IdOf(now), role |-> "user", content |-> text]
        shown == messages \o <<userMsg,
                    [id |-> assistantId, role |-> "assistant", content |-> << >>]>>
    IN  /\ ~(isLoading \/ isTyping)
        /\ sendMessageStream(text, media, [none |-> TRUE])
        /\ IF GetAIThrows
           THEN /\ messages' = SetContent(shown, assistantId, <<"Error: ">> \o MissingKeyError)
                /\ isLoading' = FALSE
                /\ UNCHANGED inflight
           ELSE /\ messages' = shown
                /\ isLoading' = TRUE
                /\ inflight' = Append(inflight,
                        [ text |-> text, media |-> media, useSearch |-> FALSE,
                          assistantId |-> assistantId, fullContent |-> << >>,
                          chunks |-> << >> ])
        /\ now' = now + 3
        /\ started' = started + 1

handleSendOlder(tick) ==
    LET txt == IF input # << >> THEN input
               ELSE IF selectedMedia # null
                    THEN <<"Extract technical data from this image.">> ELSE << >>
        media == IF selectedMedia # null THEN selectedMedia ELSE undefined
    IN  /\ user # null
        /\ ~((Trim(input) = << >> /\ selectedMedia = null) \/ isLoading \/ isTyping)
        /\ input' = << >>
        /\ selectedMedia' = null
        /\ processMessageOlder(txt, media, tick)
        /\ UNCHANGED <<user, isTyping, activeAction, welcome, chunksSeen, imageInflight,
                       orphans, mounts, deepSearch>>

\* { title: c.web?.title || 'Resource', uri: c.web?.uri }
SourceOfOlder(c) ==
    [ title |-> IF "title" \in DOMAIN c /\ Truthy(c.title) THEN c.title ELSE <<"Resource">>,
      uri |-> IF "uri" \in DOMAIN c THEN c.uri ELSE << >> ]

RECURSIVE MapFilterSourcesOlder(_)
MapFilterSourcesOlder(g) ==
    IF g = << >> THEN << >>
    ELSE (IF Truthy(SourceOfOlder(Head(g)).uri) THEN <<SourceOfOlder(Head(g))>> ELSE << >>)
            \o MapFilterSourcesOlder(Tail(g))

\* { ...msg, content: fullContent, sources: groundingChunks?.map(...).filter(...) }:
\* the sources of the message are those of this chunk alone
ChunkUpdateOlder(msg, fullContent, chunk) ==
    IF HasGrounding(chunk)
    THEN With([msg EXCEPT !.content = fullContent], "sources",
              MapFilterSourcesOlder(chunk.groundingChunks))
    ELSE [f \in DOMAIN msg \ {"sources"} |-> IF f = "content" THEN fullContent ELSE msg[f]]

\* one iteration of the for await loop
StreamChunkOlder(r, chunk) ==
    LET req == inflight[r]
        fullContent == Accumulate(req.fullContent, chunk)
    IN  /\ inflight' = [inflight EXCEPT ![r] =
                [req EXCEPT !.fullContent = fullContent, !.chunks = Append(@, chunk)]]
        /\ messages' = [k \in DOMAIN messages |->
                            IF messages[k].id = req.assistantId
                            THEN ChunkUpdateOlder(messages[k], fullContent, chunk)
                            ELSE messages[k]]
        /\ chunksSeen' = chunksSeen + 1
        /\ UNCHANGED <<svcVars, user, input, isLoading, isTyping, selectedMedia,
                       activeAction, welcome, now, started, imageInflight, orphans,
                       mounts, deepSearch>>

\* the loop ends: both turns are committed; finally setIsLoading(false)
StreamEndOlder(r) ==
    LET req == inflight[r]
        turns == CommitTurns(req.text, req.media, req.fullContent)
    IN  /\ history' = HistoryAfterUpdate(
                          HistoryAfterUpdate(history, turns[1].role, turns[1].parts),
                          turns[2].role, turns[2].parts)
        /\ appended' = appended \o turns
        /\ isLoading' = FALSE
        /\ inflight' = Without(inflight, r)
        /\ UNCHANGED <<systemInstruction, API_KEY, netCalls, lastRequest, outcome,
                       lastInit, imageResult, user, messages, input, isTyping,
                       selectedMedia, activeAction, welcome, now, started, chunksSeen,
                       imageInflight, orphans, mounts, deepSearch>>

\* the call or the stream rejects: the catch and finally blocks
StreamFailOlder(r, errorMessage) ==
    LET req == inflight[r]
    IN  /\ messages' = SetContent(messages, req.assistantId, <<"Error: ">> \o errorMessage)
        /\ isLoading' = FALSE
        /\ inflight' = Without(inflight, r)
        /\ UNCHANGED <<svcVars, user, input, isTyping, selectedMedia, activeAction,
                       welcome, now, started, chunksSeen, imageInflight, orphans,
                       mounts, deepSearch>>

----------------------------------------------------------------------------
(* The session on its own: any caller, any order of calls *)

Init ==
    /\ history = << >>
    /\ systemInstruction = << >>
    /\ API_KEY \in {<< >>, <<"k">>}
    /\ appended = << >>
    /\ netCalls = 0
    /\ lastRequest = undefined
    /\ outcome = NoOutcome
    /\ lastInit = undefined
    /\ imageResult = undefined
    /\ user = null
    /\ messages = << >>
    /\ input = << >>
    /\ isLoading = FALSE
    /\ isTyping = FALSE
    /\ selectedMedia = null
    /\ activeAction = NoAction
    /\ welcome = NoWelcome
    /\ inflight = << >>
    /\ now = 0
    /\ started = 0
    /\ chunksSeen = 0
    /\ imageInflight = << >>
    /\ orphans = << >>
    /\ mounts = 0
    /\ deepSearch = FALSE

CallInitChat ==
    /\ \E userName \in UserNames : initChat(userName)
    /\ UNCHANGED uiVars

CallUpdateHistory ==
    /\ Len(appended) < MaxAppends
    /\ \E role \in Roles, parts \in PartsValues : updateHistory(role, parts)
    /\ UNCHANGED uiVars

Next == CallInitChat \/ CallUpdateHistory

Spec == Init /\ [][Next]_vars

----------------------------------------------------------------------------
(* Request composition: sendMessageStream called directly, over short histories *)

ComposeUpdateHistory ==
    /\ Len(history) < MaxComposeTurns
    /\ \E role \in Roles, parts \in PartsValues : updateHistory(role, parts)
    /\ UNCHANGED uiVars

CallSendMessageStream ==
    /\ netCalls < MaxCalls
    /\ \E message \in Messages, mediaData \in MediaValues \cup {undefined},
          options \in OptionValues :
            sendMessageStream(message, mediaData, options)
    /\ UNCHANGED uiVars

NextCompose == CallInitChat \/ ComposeUpdateHistory \/ CallSendMessageStream

SpecCompose == Init /\ [][NextCompose]_vars

----------------------------------------------------------------------------
(* Request composition when the receiver of a request changes the contents
   array it was handed: it removes the last element, or adds one *)

ContentsAfterPop == SubSeq(lastRequest.contents, 1, Len(lastRequest.contents) - 1)

ContentsAfterPush(turn) == Append(lastRequest.contents, turn)

PopContents ==
    /\ lastRequest # undefined
    /\ lastRequest.contents # << >>
    /\ lastRequest' = [lastRequest EXCEPT !.contents = ContentsAfterPop]
    /\ history' = IF ContentsSharesHistoryArray THEN ContentsAfterPop ELSE history
    /\ UNCHANGED <<systemInstruction, API_KEY, appended, netCalls, outcome, lastInit,
                   imageResult, uiVars>>

PushContents ==
    /\ lastRequest # undefined
    /\ Len(lastRequest.contents) <= MaxComposeTurns
    /\ \E role \in Roles, parts \in PartsValues :
          LET turn == [role |-> role, parts |-> parts]
          IN  /\ lastRequest' = [lastRequest EXCEPT !.contents = ContentsAfterPush(turn)]
              /\ history' = IF ContentsSharesHistoryArray
                            THEN ContentsAfterPush(turn) ELSE history
    /\ UNCHANGED <<systemInstruction, API_KEY, appended, netCalls, outcome, lastInit,
                   imageResult, uiVars>>

CopySendMessageStream ==
    /\ netCalls < MaxCalls
    /\ \E message \in {<<"h", "i">>},
          mediaData \in {undefined, [data |-> <<"Q">>, mimeType |-> <<"image/png">>]} :
            sendMessageStream(message, mediaData, [none |-> TRUE])
    /\ UNCHANGED uiVars

NextCopy ==
    \/ CallInitChat \/ ComposeUpdateHistory \/ CopySendMessageStream
    \/ PopContents \/ PushContents

SpecCopy == Init /\ [][NextCopy]_vars

----------------------------------------------------------------------------
(* The chat component: one user, every control of the component *)

UIInputs == {<<" ">>, <<" ", "h", " ">>}

UIMedia == { [data |-> <<"Q">>, mimeType |-> <<"image/png">>] }

UIActions == {"gate_pyq"}

UIChunks == { [text |-> <<"a">>,
               groundingChunks |-> <<[title |-> <<"A">>, uri |-> <<"u1">>]>>] }

ErrorMessages == { <<"429 RESOURCE_EXHAUSTED">> }

Ticks == {0, 1}

UIStart ==
    \E name \in {<<"A">>}, hour \in {9} : handleStart(name, hour)

UISetInput == \E value \in UIInputs : setInput(value)

UIFileChange == \E media \in UIMedia : handleFileChange(media)

UIActionClick == \E type \in UIActions : handleActionClick(type)

UISend == started < MaxRequests /\ handleSend(0)

UIChunk ==
    /\ chunksSeen < MaxChunks
    /\ \E r \in DOMAIN inflight, chunk \in UIChunks : StreamChunk(r, chunk)

UIEnd == \E r \in DOMAIN inflight : StreamEnd(r)

UIFail == \E r \in DOMAIN inflight, e \in ErrorMessages : StreamFail(r, e)

NextUI ==
    \/ UIStart \/ WelcomeTick \/ UISetInput \/ UIFileChange \/ clearSelectedMedia
    \/ UIActionClick \/ UISend \/ UIChunk \/ UIEnd \/ UIFail

SpecUI == Init /\ [][NextUI]_vars

----------------------------------------------------------------------------
(* The chat component: plain submissions, every shape of stream *)

StreamChunks ==
    { [text |-> <<"a">>],
      [text |-> <<"b">>, groundingChunks |-> << >>],
      [text |-> <<"b">>, groundingChunks |-> <<[title |-> <<"A">>, uri |-> <<"u1">>],
                                               [title |-> <<"B">>, uri |-> <<"u2">>]>>],
      [groundingChunks |-> <<[title |-> <<"A2">>, uri |-> <<"u1">>]>>],
      [text |-> << >>, groundingChunks |-> <<[title |-> <<"C">>], [uri |-> <<"u3">>],
                                               [title |-> <<"D">>, uri |-> << >>]>>],
      [groundingChunks |-> <<[title |-> <<"A">>, uri |-> <<"u1">>],
                             [title |-> <<"B">>, uri |-> <<"u2">>],
                             [title |-> <<"A2">>, uri |-> <<"u1">>]>>] }

StreamStart ==
    \E name \in {<<"A">>}, hour \in {18} : handleStart(name, hour)

StreamSetInput == \E value \in {<<"h", "i">>} : setInput(value)

StreamSend == started < MaxStreamRequests /\ \E tick \in Ticks : handleSend(tick)

StreamDeliver ==
    /\ chunksSeen < MaxStreamChunks
    /\ \E r \in DOMAIN inflight, chunk \in StreamChunks : StreamChunk(r, chunk)

NextStream ==
    \/ StreamStart \/ WelcomeTick \/ StreamSetInput \/ StreamSend
    \/ StreamDeliver \/ UIEnd \/ UIFail

SpecStream == Init /\ [][NextStream]_vars

----------------------------------------------------------------------------
(* The app: users who start, submit text and image requests, and reset *)

ResetImageResponses ==
    { [candidates |-> <<[content |-> [parts |->
            <<[inlineData |-> [data |-> <<"Q">>, mimeType |-> <<"image/png">>]]>>]]>>],
      [error |-> <<"429 RESOURCE_EXHAUSTED">>] }

ResetStart ==
    /\ mounts < MaxMounts
    /\ \E name \in UserNames, hour \in {9} :
          IF mounts = 0 THEN name = <<"A">> /\ handleStart(name, hour)
          ELSE name = <<"B">> /\ handleStart(name, hour)

ResetSetInput == \E value \in {<<"h">>} : setInput(value)

ResetActionClick == handleActionClick("visualize")

ResetSend == now < 3 * MaxResetRequests /\ handleSend(0)

ResetVisualize ==
    /\ now < 3 * MaxResetRequests
    /\ \E promptAnswer \in {<< >>, <<"o", "p">>}, tick \in Ticks :
          handleSendVisualize(promptAnswer, tick)

ResetChunk ==
    /\ chunksSeen < MaxResetChunks
    /\ \/ \E r \in DOMAIN inflight, chunk \in UIChunks : StreamChunk(r, chunk)
       \/ \E o \in DOMAIN orphans, chunk \in UIChunks : OrphanChunk(o, chunk)

ResetImageSettle ==
    \E v \in DOMAIN imageInflight, response \in ResetImageResponses : ImageSettle(v, response)

ResetOrphanEnd == \E o \in DOMAIN orphans : OrphanEnd(o)

ResetOrphanFail == \E o \in DOMAIN orphans : OrphanFail(o)

ResetOrphanImageSettle ==
    \E o \in DOMAIN orphans, response \in ResetImageResponses : OrphanImageSettle(o, response)

NextReset ==
    \/ ResetStart \/ WelcomeTick \/ ResetSetInput \/ ResetActionClick
    \/ ResetSend \/ ResetVisualize \/ ResetChunk \/ UIEnd \/ UIFail
    \/ ResetImageSettle \/ handleReset
    \/ ResetOrphanEnd \/ ResetOrphanFail \/ ResetOrphanImageSettle

SpecReset == Init /\ [][NextReset]_vars

\* The same app with the welcome interval firing as long as it is set
SpecResetLive == Init /\ [][NextReset]_vars /\ WF_vars(WelcomeTick)

----------------------------------------------------------------------------
(* The chat component that has a search switch: one user who types, submits
   and turns the switch *)

NextSearch ==
    \/ \E name \in {<<"A">>}, hour \in {9} : handleStartSearch(name, hour)
    \/ WelcomeTick
    \/ ResetSetInput
    \/ started < MaxSearchRequests /\ handleSendSearch(0)
    \/ \E hour \in {9} : toggleDeepSearch(hour)
    \/ UIEnd
    \/ \E r \in DOMAIN inflight, e \in ErrorMessages : StreamFailSearch(r, e)

SpecSearch == Init /\ [][NextSearch]_vars

----------------------------------------------------------------------------
(* Media of every kind: one user who attaches a file that read as a usable
   image, as an empty payload (a file of zero bytes) or without a MIME type
   (a file of unknown type), and submits *)

NextMedia ==
    \/ UIStart
    \/ WelcomeTick
    \/ ResetSetInput
    \/ \E media \in MediaValues : handleFileChange(media)
    \/ started < MaxMediaRequests /\ handleSend(0)
    \/ UIEnd
    \/ UIFail

SpecMedia == Init /\ [][NextMedia]_vars

----------------------------------------------------------------------------
(* A long conversation: one user whose requests succeed or fail, until the
   history is full and turns are evicted *)

NextTurns ==
    \/ UIStart
    \/ WelcomeTick
    \/ ResetSetInput
    \/ started < MaxTurnsRequests /\ handleSend(0)
    \/ UIEnd
    \/ UIFail

SpecTurns == Init /\ [][NextTurns]_vars

----------------------------------------------------------------------------
(* The component with the one-click toolkit: one user who types, attaches
   media, clicks tools, answers or cancels the prompt dialog, and submits;
   the provider answers an image request with an image, or rejects it *)

NextOneClick ==
    \/ \E name \in {<<"A">>}, hour \in {9} : handleStartOneClick(name, hour)
    \/ WelcomeTick
    \/ UISetInput
    \/ UIFileChange
    \/ clearSelectedMedia
    \/ /\ now < 3 * MaxOneClickRequests
       /\ \E type \in {"step_by_step", "gate_pyq", "formula_ocr", "visualize"},
             promptAnswer \in {<< >>, <<"q">>}, tick \in Ticks :
                handleActionClickOneClick(type, promptAnswer, tick)
    \/ /\ now < 3 * MaxOneClickRequests
       /\ \E tick \in Ticks : handleSendOneClick(tick)
    \/ \E r \in DOMAIN inflight : StreamEndOneClick(r)
    \/ \E r \in DOMAIN inflight, e \in ErrorMessages : StreamFailOneClick(r, e)
    \/ \E v \in DOMAIN imageInflight, response \in ResetImageResponses :
          ImageSettleOneClick(v, response)

SpecOneClick == Init /\ [][NextOneClick]_vars

----------------------------------------------------------------------------
(* The older chat component: one user, one stream with and without citations *)

NextOlder ==
    \/ \E name \in {<<"A">>}, hour \in {9} : handleStartOlder(name, hour)
    \/ WelcomeTickOlder
    \/ ResetSetInput
    \/ started < MaxOlderRequests /\ \E tick \in Ticks : handleSendOlder(tick)
    \/ /\ chunksSeen < MaxOlderChunks
       /\ \E r \in DOMAIN inflight,
             chunk \in { [text |-> <<"a">>,
                          groundingChunks |-> <<[title |-> <<"A">>, uri |-> <<"u1">>]>>],
                         [text |-> <<"b">>],
                         [groundingChunks |-> <<[uri |-> <<"u2">>], [title |-> <<"C">>]>>] } :
                StreamChunkOlder(r, chunk)
    \/ \E r \in DOMAIN inflight : StreamEndOlder(r)
    \/ \E r \in DOMAIN inflight, e \in ErrorMessages : StreamFailOlder(r, e)

SpecOlder == Init /\ [][NextOlder]_vars

----------------------------------------------------------------------------
(* Image generation: generateImage called directly, over every shape of
   provider response *)

ImageTopics == {<<"5", "5", "5">>, <<"o", "p">>}

ImagePartValues ==
    { [text |-> <<"ok">>],
      [inlineData |-> [data |-> <<"Q">>, mimeType |-> <<"image/png">>]],
      [inlineData |-> [data |-> <<"R">>, mimeType |-> <<"image/jpeg">>]],
      [inlineData |-> [data |-> << >>, mimeType |-> <<"image/png">>]],
      [inlineData |-> [data |-> <<"S">>]] }

ImagePartLists ==
    UNION { [1..n -> ImagePartValues] : n \in 0..MaxImageParts }

ImageResponses ==
    { [candidates |-> <<[content |-> [parts |-> parts]]>>] : parts \in ImagePartLists }
        \cup { [candidates |-> << >>], [promptFeedback |-> TRUE],
                [candidates |-> <<[finishReason |-> <<"SAFETY">>]>>],
                [candidates |-> <<[content |-> [role |-> "model"]]>>],
                [error |-> <<"429 RESOURCE_EXHAUSTED">>] }

CallGenerateImage ==
    /\ \E prompt \in ImageTopics, response \in ImageResponses :
            generateImage(prompt, response)
    /\ UNCHANGED uiVars

NextImage == CallInitChat \/ CallGenerateImage

SpecImage == Init /\ [][NextImage]_vars

----------------------------------------------------------------------------
(* The chat component when every request settles: the welcome interval keeps
   firing, and the provider settles every call it has accepted (the stream
   closes or rejects); the continuation of a settled await is then run by the
   event loop. *)

LiveSend == started < MaxLiveRequests /\ handleSend(0)

LiveChunk ==
    /\ chunksSeen < MaxLiveChunks
    /\ \E r \in DOMAIN inflight, chunk \in UIChunks : StreamChunk(r, chunk)

LiveSettle == UIEnd \/ UIFail

NextLive == UIStart \/ WelcomeTick \/ UISetInput \/ LiveSend \/ LiveChunk \/ LiveSettle

SpecLive ==
    Init /\ [][NextLive]_vars /\ WF_vars(WelcomeTick) /\ WF_vars(LiveSettle)

----------------------------------------------------------------------------
(* Claims about the session *)

Min(a, b) == IF a < b THEN a ELSE b

LastOf(s, n) == SubSeq(s, Len(s) - n + 1, Len(s))

\* C1: after every updateHistory call, in any interleaving with initChat, the
\* history holds at most 10 turns.
C1_HistoryBound == Len(history) <= HistoryLimit

C1_Witness == Len(appended) > HistoryLimit /\ Len(history) = HistoryLimit

\* C2: the history is exactly the most recent min(k, 10) turns appended since
\* the last initChat, in submission order and unaltered.
C2_FifoRetention ==
    history = LastOf(appended, Min(Len(appended), HistoryLimit))

C2_Witness ==
    /\ Len(appended) = HistoryLimit + 1
    /\ appended[1] # appended[2]
    /\ history = Tail(appended)

----------------------------------------------------------------------------
(* Claims about request composition *)

\* The user turn that ends the contents of the latest provider call.
NewTurn == lastRequest.contents[Len(lastRequest.contents)]

SuppliedAndUsable(m) == m # undefined /\ m.data # << >> /\ m.mimeType # << >>

\* C4: sendMessageStream with message "" and no media fails instead of
\* issuing a provider call, and no provider call ever carries a user turn
\* whose only content is the empty text.
C4_EmptyInputRejected ==
    /\ (outcome.kind # "none" /\ outcome.args.message = << >>
            /\ outcome.args.mediaData = undefined)
        => outcome.kind = "error"
    /\ lastRequest # undefined => NewTurn.parts # <<[text |-> << >>]>>

\* C7 as stated: the text part is first, and whenever media is supplied the
\* inlineData part is the second and last part.
C7_MediaAlwaysSecond ==
    outcome.kind = "stream" =>
        /\ NewTurn.parts[1] = [text |-> outcome.args.message]
        /\ IF outcome.args.mediaData # undefined
           THEN /\ Len(NewTurn.parts) = 2
                /\ NewTurn.parts[2] = [inlineData |-> outcome.args.mediaData]
           ELSE Len(NewTurn.parts) = 1

\* C7, amended: the text part is first; when media with non-empty data and
\* non-empty MIME type is supplied the inlineData part is the second and last
\* part; in every other case the text part is the only part.
C7_PartOrder ==
    outcome.kind = "stream" =>
        /\ NewTurn.parts[1] = [text |-> outcome.args.message]
        /\ IF SuppliedAndUsable(outcome.args.mediaData)
           THEN /\ Len(NewTurn.parts) = 2
                /\ NewTurn.parts[2] = [inlineData |-> outcome.args.mediaData]
           ELSE Len(NewTurn.parts) = 1

C7_Witness ==
    /\ outcome.kind = "stream"
    /\ SuppliedAndUsable(outcome.args.mediaData)
    /\ Len(NewTurn.parts) = 2

\* C8: the request configuration carries the web-search tool exactly when
\* the caller passed useSearch = true; with false or no option it has no tools.
C8_SearchSwitch ==
    outcome.kind = "stream" =>
        IF "useSearch" \in DOMAIN outcome.args.options /\ outcome.args.options.useSearch = TRUE
        THEN /\ "tools" \in DOMAIN lastRequest.config
             /\ lastRequest.config.tools = <<[googleSearch |-> TRUE]>>
        ELSE "tools" \notin DOMAIN lastRequest.config

C8_Witness ==
    /\ outcome.kind = "stream"
    /\ outcome.args.options = [useSearch |-> TRUE]
    /\ "tools" \in DOMAIN lastRequest.config

\* C10: whenever a provider call is issued, its contents are the history of
\* that moment, oldest first, followed by exactly one new user turn, and its
\* system instruction is the one the session holds.
C10_PayloadComposition ==
    [][ netCalls' # netCalls =>
            /\ Len(lastRequest'.contents) = Len(history) + 1
            /\ SubSeq(lastRequest'.contents, 1, Len(history)) = history
            /\ lastRequest'.contents[Len(history) + 1].role = "user"
            /\ lastRequest'.config.systemInstruction = systemInstruction ]_vars

C10_Witness ==
    /\ lastRequest # undefined
    /\ Len(lastRequest.contents) = 3
    /\ lastRequest.contents[1].role # lastRequest.contents[2].role
    /\ lastRequest.config.systemInstruction # << >>

----------------------------------------------------------------------------
(* Claims about the chat component *)

LastMessage == messages[Len(messages)]

\* C3: with no API key configured, sendMessageStream fails with the
\* missing-credential error, no provider call is ever issued, no request
\* stays in flight and nothing is committed to the history.
C3_FailFastOnMissingKey ==
    API_KEY = << >> =>
        /\ netCalls = 0
        /\ lastRequest = undefined
        /\ inflight = << >>
        /\ history = << >> /\ appended = << >>
        /\ started > 0 =>
              /\ outcome.kind = "error"
              /\ outcome.message = <<"Missing API_KEY. Access restricted.">>

C3_Witness ==
    /\ API_KEY = << >>
    /\ started > 0
    /\ outcome.kind = "error"
    /\ LastMessage.role = "assistant"
    /\ LastMessage.content =
            <<"Link Transmission Failure: ", "Missing API_KEY. Access restricted.">>

\* The text delta of a chunk: its text, and the empty string when it has none.
Delta(chunk) == IF "text" \in DOMAIN chunk THEN chunk.text ELSE << >>

RECURSIVE ConcatDeltas(_)
ConcatDeltas(chunks) ==
    IF chunks = << >> THEN << >> ELSE Delta(Head(chunks)) \o ConcatDeltas(Tail(chunks))

\* C5: after the k-th chunk of a stream has been processed, the accumulated
\* text and the displayed text of the in-progress assistant message both
\* equal the deltas of chunks 1..k concatenated in arrival order.
C5_TextAccumulation ==
    \A r \in DOMAIN inflight :
        /\ inflight[r].fullContent = ConcatDeltas(inflight[r].chunks)
        /\ \A k \in DOMAIN messages :
              messages[k].id = inflight[r].assistantId
                  => messages[k].content = ConcatDeltas(inflight[r].chunks)

C5_Witness ==
    \E r \in DOMAIN inflight :
        /\ Len(inflight[r].chunks) = 3
        /\ \E c \in 1..3 : "text" \notin DOMAIN inflight[r].chunks[c]
        /\ inflight[r].fullContent = <<"a", "b">>
        /\ LastMessage.content = <<"a", "b">>

\* C6: the sources of an assistant message hold at most one entry per uri.
C6_CitationDedup ==
    \A k \in DOMAIN messages :
        "sources" \in DOMAIN messages[k] =>
            \A i, j \in DOMAIN messages[k].sources :
                i # j => messages[k].sources[i].uri # messages[k].sources[j].uri

\* C9: the history changes only when a stream ends, and then by exactly two
\* appended turns: the user turn of the request (its text, then its media
\* when it has one), then a model turn whose single part is the accumulated
\* text, with no citations.
C9_CommitOnCompletion ==
    [][ (history' # history \/ appended' # appended) =>
            \E r \in DOMAIN inflight :
                LET req == inflight[r]
                    userTurn == [role |-> "user",
                                 parts |-> IF req.media = undefined
                                           THEN <<[text |-> req.text]>>
                                           ELSE <<[text |-> req.text],
                                                  [inlineData |-> req.media]>>]
                    modelTurn == [role |-> "model",
                                  parts |-> <<[text |-> ConcatDeltas(req.chunks)]>>]
                    all == history \o <<userTurn, modelTurn>>
                IN  /\ inflight' = Without(inflight, r)
                    /\ appended' = appended \o <<userTurn, modelTurn>>
                    /\ history' = LastOf(all, Min(Len(all), HistoryLimit)) ]_vars

C9_Witness ==
    /\ Len(history) = 4
    /\ Len(history[1].parts) = 2
    /\ history[2] = [role |-> "model", parts |-> <<[text |-> <<"a", "a">>]>>]
    /\ history[3].role = "user"
    /\ \E k \in DOMAIN messages : "sources" \in DOMAIN messages[k]

----------------------------------------------------------------------------
(* Claims about resets, failures and the order of requests *)

\* C11: initChat(userName) leaves the history empty and sets the system
\* instruction to the template filled with userName; every later
\* sendMessageStream request carries that instruction and, before its new
\* turn, only turns committed since that initChat.
C11_Reset ==
    [][ /\ (lastInit' # lastInit \/ Len(appended') < Len(appended))
            => /\ history' = << >>
               /\ systemInstruction' = InstructionFor(lastInit'.userName)
        /\ (netCalls' # netCalls /\ lastInit # undefined)
            => LET sent == SubSeq(lastRequest'.contents, 1, Len(lastRequest'.contents) - 1)
               IN  /\ lastRequest'.config.systemInstruction = InstructionFor(lastInit.userName)
                   /\ Len(sent) <= Len(appended)
                   /\ sent = LastOf(appended, Len(sent)) ]_vars

C11_Witness ==
    /\ netCalls = 2
    /\ lastInit = [userName |-> <<"B">>]
    /\ appended = << >>
    /\ lastRequest.config.systemInstruction = InstructionFor(<<"B">>)
    /\ Len(lastRequest.contents) = 1

IsFailureText(content) ==
    content # << >> /\ Head(content) = "Link Transmission Failure: "

\* C12: every accepted submission issues exactly one provider streaming call
\* (none when the key is missing); a failure issues no further call, and a
\* request whose message shows a failure is no longer in flight.
C12_NoRetries ==
    /\ netCalls = (IF API_KEY # << >> THEN started ELSE 0)
    /\ Len(inflight) <= started
    /\ \A r \in DOMAIN inflight : \A k \in DOMAIN messages :
            messages[k].id = inflight[r].assistantId => ~IsFailureText(messages[k].content)

C12_Witness ==
    /\ started = 2 /\ netCalls = 2
    /\ Len(inflight) = 1
    /\ \E k \in DOMAIN messages : IsFailureText(messages[k].content)

\* C13: a submission never leaves the session stuck: once its request has
\* settled isLoading is false, and it does settle, so isLoading eventually
\* returns to false; a request that fails (at the call or in the stream)
\* leaves the failure text in its assistant message; and whenever no request
\* is pending and the input is not blank, a submission is accepted.
C13_SessionStaysUsable ==
    /\ [](isLoading => inflight # << >>)
    /\ (isLoading ~> ~isLoading)
    /\ [](user # null /\ ~isTyping /\ inflight = << >> /\ Trim(input) # << >>
            => ENABLED handleSend(0))
    /\ [][ /\ \A r \in DOMAIN inflight :
                  (inflight' = Without(inflight, r) /\ appended' = appended)
                      => /\ ~isLoading'
                         /\ \E k \in DOMAIN messages' :
                               /\ messages'[k].id = inflight[r].assistantId
                               /\ messages'[k].role = "assistant"
                               /\ IsFailureText(messages'[k].content)
           /\ (started' # started /\ inflight' = inflight)
                  => /\ ~isLoading'
                     /\ IsFailureText(messages'[Len(messages')].content) ]_vars

C13_Witness ==
    /\ started = 2 /\ netCalls = 2
    /\ isLoading
    /\ Len(messages) = 5
    /\ IsFailureText(messages[3].content)
    /\ messages[5].content = <<"a", "a">>

\* The texts that tell the user to wait 60 seconds.
WaitHints == {"Neural cores throttled (Rate Limit). Please wait 60s.", "Please wait 60s."}

\* C14: when a request in flight fails with the provider's rate-limit report
\* (every error of ErrorMessages is an HTTP 429 report), its assistant
\* message carries the 60-second wait hint, and no further provider call is
\* made.
C14_ThrottleClassified ==
    [][ \A r \in DOMAIN inflight :
            (inflight' = Without(inflight, r) /\ appended' = appended)
                => /\ netCalls' = netCalls
                   /\ \E k \in DOMAIN messages' :
                         /\ messages'[k].id = inflight[r].assistantId
                         /\ \E i \in DOMAIN messages'[k].content :
                               messages'[k].content[i] \in WaitHints ]_vars

\* C15: when a request that has received no chunk leaves the for await loop,
\* either the provider rejected (one of its errors is shown and nothing is
\* committed) or the stream closed, and then no message changes, the
\* assistant message stays empty, and the user turn followed by a model turn
\* with the empty text is committed.
C15_EmptyStream ==
    [][ \A r \in DOMAIN inflight :
            (inflight[r].chunks = << >> /\ inflight' = Without(inflight, r))
                => \/ /\ \E e \in ErrorMessages :
                            messages' = SetContent(messages, inflight[r].assistantId,
                                                   <<"Link Transmission Failure: ">> \o e)
                      /\ history' = history /\ appended' = appended
                   \/ /\ messages' = messages
                      /\ \A k \in DOMAIN messages :
                            messages[k].id = inflight[r].assistantId
                                => messages'[k].content = << >>
                      /\ Len(appended') = Len(appended) + 2
                      /\ appended'[Len(appended') - 1].role = "user"
                      /\ appended'[Len(appended') - 1].parts[1] = [text |-> inflight[r].text]
                      /\ appended'[Len(appended')] =
                            [role |-> "model", parts |-> <<[text |-> << >>]>>]
                      /\ history' = LastOf(appended', Min(Len(appended'), HistoryLimit)) ]_vars

C15_Witness ==
    /\ inflight = << >>
    /\ started = 1
    /\ Len(history) = 2
    /\ history[2] = [role |-> "model", parts |-> <<[text |-> << >>]>>]
    /\ LastMessage.role = "assistant"
    /\ LastMessage.content = << >>

----------------------------------------------------------------------------
(* Claims about image generation *)

\* The parts of the answered response, none when it has no first candidate
\* with content parts.
AnsweredParts ==
    LET response == imageResult.response
    IN  IF "candidates" \in DOMAIN response /\ Len(response.candidates) >= 1
            /\ "content" \in DOMAIN response.candidates[1]
            /\ "parts" \in DOMAIN response.candidates[1].content
        THEN response.candidates[1].content.parts
        ELSE << >>

\* The positions of the parts that are inline images (inline data that is
\* not empty).
InlineImages ==
    { i \in DOMAIN AnsweredParts :
        /\ "inlineData" \in DOMAIN AnsweredParts[i]
        /\ AnsweredParts[i].inlineData.data # << >> }

\* C16: generateImage resolves to the data and MIME type (image/png when the
\* part names none) of the first inline image of the response, and to null
\* when the response has no inline image; it rejects only when the API key
\* is missing, never because the image is absent.
C16_ImageOutcome ==
    imageResult # undefined =>
        /\ imageResult.kind = "rejected" <=> API_KEY = << >>
        /\ imageResult.kind = "resolved" =>
              IF InlineImages # {}
              THEN LET first == CHOOSE i \in InlineImages : \A j \in InlineImages : i <= j
                       image == AnsweredParts[first].inlineData
                   IN  /\ imageResult.result # null
                       /\ imageResult.result.data = image.data
                       /\ imageResult.result.mimeType =
                             (IF "mimeType" \in DOMAIN image THEN image.mimeType
                              ELSE <<"image/png">>)
              ELSE imageResult.result = null

C16_Witness ==
    /\ imageResult # undefined
    /\ imageResult.kind = "resolved"
    /\ InlineImages = {1, 2}
    /\ AnsweredParts[1].inlineData.data # AnsweredParts[2].inlineData.data
    /\ imageResult.result = [data |-> <<"R">>, mimeType |-> <<"image/jpeg">>]

----------------------------------------------------------------------------
(* Claims about what a request leaves untouched *)

C18_NoCommitOnFailure ==
    [][ /\ \A r \in DOMAIN inflight :
              (inflight' = Without(inflight, r) /\ messages' # messages)
                  => (history' = history /\ appended' = appended)
        /\ started' # started => (history' = history /\ appended' = appended)
        /\ (inflight # << >> /\ Len(inflight') >= Len(inflight))
              => (history' = history /\ appended' = appended) ]_vars

C18_Witness ==
    /\ started = 2
    /\ inflight = << >>
    /\ chunksSeen = 2
    /\ Len(history) = 2
    /\ history[2].parts = <<[text |-> <<"a">>]>>
    /\ IsFailureText(LastMessage.content)
    /\ "sources" \in DOMAIN LastMessage

----------------------------------------------------------------------------
(* Claims about requests across a reset *)

\* The provider calls that have been issued and have not settled yet.
Outstanding == Len(inflight) + Len(imageInflight) + Len(orphans)

\* C19: at most one provider call, streaming or image generation, is
\* outstanding on the shared session at any time.
C19_SerializedAccess == Outstanding <= 1

\* C20: while a user is in the chat, every commit to the history is made by
\* a request of the mounted component, that is, by a request submitted after
\* the initChat call for that user.
C20_NoStaleCommit ==
    [][ (user # null /\ Len(appended') > Len(appended))
            => \E r \in DOMAIN inflight : inflight' = Without(inflight, r) ]_vars

----------------------------------------------------------------------------
(* Claims about the controls of the chat component *)

IsPrefix(s, t) == Len(s) <= Len(t) /\ SubSeq(t, 1, Len(s)) = s

\* C21: initChat runs only in the step that mounts the chat component; every
\* other step (typing, selecting or deselecting a tool, attaching or removing
\* media, sending, a chunk, the end or failure of a stream) keeps every
\* committed turn and every displayed message: the turns appended so far stay
\* a prefix, and the displayed list keeps its messages, in order, by id.
C21_ResetOnlyOnNewUser ==
    [][ mounts' = mounts =>
            /\ lastInit' = lastInit
            /\ systemInstruction' = systemInstruction
            /\ IsPrefix(appended, appended')
            /\ Len(history') >= Len(history)
            /\ Len(messages') >= Len(messages)
            /\ \A k \in DOMAIN messages :
                  /\ messages'[k].id = messages[k].id
                  /\ messages'[k].role = messages[k].role ]_vars

\* the citation fragments of the chunks delivered so far, in delivery order
RECURSIVE Fragments(_)
Fragments(chunks) ==
    IF chunks = << >> THEN << >>
    ELSE (IF "groundingChunks" \in DOMAIN Head(chunks)
          THEN Head(chunks).groundingChunks ELSE << >>) \o Fragments(Tail(chunks))

HasUri(c) == "uri" \in DOMAIN c /\ c.uri # << >>

SourcesOf(m) == IF "sources" \in DOMAIN m THEN m.sources ELSE << >>

AssistantOf(req) ==
    messages[CHOOSE k \in DOMAIN messages : messages[k].id = req.assistantId]

\* C22: no displayed message has a source whose uri is empty, and while a
\* stream is being read the sources of its assistant message are as many as
\* the fragments delivered so far that carry a non-empty uri: a fragment
\* whose uri is missing or empty is never among them.
C22_UnusableCitationsDropped ==
    /\ \A k \in DOMAIN messages :
          \A j \in DOMAIN SourcesOf(messages[k]) : SourcesOf(messages[k])[j].uri # << >>
    /\ \A r \in DOMAIN inflight :
          Len(SourcesOf(AssistantOf(inflight[r])))
              = Len(SelectSeq(Fragments(inflight[r].chunks), HasUri))

\* a chunk with a fragment without uri, one with an empty uri and one usable
\* fragment has been read: only the usable one is displayed
C22_Witness ==
    \E r \in DOMAIN inflight :
        /\ \E j \in DOMAIN Fragments(inflight[r].chunks) :
                "uri" \notin DOMAIN Fragments(inflight[r].chunks)[j]
        /\ \E j \in DOMAIN Fragments(inflight[r].chunks) :
                /\ "uri" \in DOMAIN Fragments(inflight[r].chunks)[j]
                /\ Fragments(inflight[r].chunks)[j].uri = << >>
        /\ Len(SourcesOf(AssistantOf(inflight[r]))) = 1

\* C23: a step that delivers a chunk, like every other step of a mounted
\* component, keeps the sources each displayed message already has, in their
\* order, as the first sources of that message: the list only grows, also
\* when the chunk carries no citation fragments.
C23_CitationsMerged ==
    [][ mounts' = mounts =>
            \A k \in DOMAIN messages :
                k \in DOMAIN messages' =>
                    IsPrefix(SourcesOf(messages[k]), SourcesOf(messages'[k])) ]_vars

\* C24: whatever the user typed, attached, removed, selected and submitted,
\* the user turn of the last request sent to the provider (and so of every
\* request) has a text with a character other than whitespace, or a media
\* part after its text.
C24_NeverSendsEmpty ==
    lastRequest # undefined =>
        LET parts == lastRequest.contents[Len(lastRequest.contents)].parts
        IN  ~(Trim(parts[1].text) = << >> /\ Len(parts) = 1)

Alternates(turns) ==
    \A k \in DOMAIN turns : turns[k].role = (IF k % 2 = 1 THEN "user" ELSE "model")

\* C25: the history has even length and alternates user, model from a user
\* turn on, at every moment and so whenever a request is composed; the
\* contents of the last request composed start with a user turn, alternate
\* strictly and end with the new user turn.
C25_RoleAlternation ==
    /\ Len(history) % 2 = 0
    /\ Alternates(history)
    /\ lastRequest # undefined =>
          /\ Alternates(lastRequest.contents)
          /\ Len(lastRequest.contents) % 2 = 1
          /\ lastRequest.contents[Len(lastRequest.contents)].role = "user"

\* a request failed, six succeeded so that two turns were evicted, and the
\* request composed after that carries the ten turns kept and the new one
C25_Witness ==
    /\ Len(appended) > HistoryLimit
    /\ Len(history) = HistoryLimit
    /\ \E k \in DOMAIN messages : IsFailureText(messages[k].content)
    /\ lastRequest # undefined
    /\ Len(lastRequest.contents) = HistoryLimit + 1
    /\ SubSeq(lastRequest.contents, 1, HistoryLimit) = history
    /\ isLoading

\* C26: in the step that commits the turns of a completed stream, the parts of
\* the user turn committed are the parts of the user turn that was sent in
\* that request (the last turn of the contents of the request), for every
\* media value.
C26_CommittedEqualsSent ==
    [][ Len(appended') = Len(appended) + 2 =>
            appended'[Len(appended) + 1].parts
                = lastRequest.contents[Len(lastRequest.contents)].parts ]_vars

Placeholder == <<"Synthesizing institutional schematic...">>

\* C27: a displayed message has the placeholder text of an image request only
\* while the generateImage call of that request is outstanding and isLoading
\* is true: once the call has returned or failed the message has the success
\* text with the image, or a failure text, and isLoading is false again.
C27_ImageTerminal ==
    /\ \A k \in DOMAIN messages :
          messages[k].content = Placeholder =>
              /\ isLoading
              /\ \E v \in DOMAIN imageInflight :
                    imageInflight[v].assistantId = messages[k].id
    /\ imageInflight = << >> /\ inflight = << >> => ~isLoading

DistinctIds(msgs) ==
    \A i, j \in DOMAIN msgs : i # j => msgs[i].id # msgs[j].id

\* C28: the ids of the displayed messages are pairwise distinct, and a step
\* that updates the list without adding to it or replacing it (a chunk, a
\* success or a failure update, a tick of the welcome) changes one message
\* at most.
C28_UpdatesOnlyInProgress ==
    [][ /\ DistinctIds(messages')
        /\ (mounts' = mounts /\ Len(messages') = Len(messages)) =>
              Cardinality({k \in DOMAIN messages : messages'[k] # messages[k]}) <= 1 ]_vars

\* C29: the welcome animation ends (isTyping becomes false again); when it has
\* ended the first message is the whole welcome text; and a step taken while
\* isTyping is true sends no request to the provider and commits no turn.
C29_WelcomeGate ==
    /\ (isTyping ~> ~isTyping)
    /\ [](user # null /\ ~isTyping =>
            \E hour \in 0..23 : messages[1].content = WelcomeText(user.name, hour))
    /\ [][ isTyping =>
              /\ netCalls' = netCalls
              /\ started' = started
              /\ Len(appended') = Len(appended) ]_vars

\* C30: a request that a click on a text tool started with an empty input box
\* and no media was started with a non-empty answer q to the prompt dialog
\* (a cancelled dialog starts none), and its text is the instruction of the
\* tool followed by q.
C30_ToolkitPrompt ==
    \A r \in DOMAIN inflight :
        LET req == inflight[r]
        IN  ("tool" \in DOMAIN req /\ req.tool # NoAction
                /\ req.context = << >> /\ req.media = undefined) =>
                /\ req.userContext # << >>
                /\ req.text = ToolInstruction(req.tool) \o req.userContext

====
